---- MODULE Spec2Model ----
(***************************************************************************)
(* A model of the scripts of btc-address-verifier:                         *)
(*   - btc_batch_verifier.py: detect_secret_type,                          *)
(*     btc_address_from_private_key, fetch_balance_for_btc_address, main   *)
(*   - check_balance_multi_api.py: the single-shot fetchers and            *)
(*     fetch_with_fallback, check_balances                                 *)
(*   - derive_and_check_balance.py: fetch_balance, check_balances          *)
(*   - check_balance_blockchain_com.py, btc_check_from_list.py: the        *)
(*     single-shot fetchers; extract_addresses of the three scripts        *)
(* A Python str is a sequence of one-character strings.                    *)
(***************************************************************************)
EXTENDS Integers, Sequences, FiniteSets, TLC

VARIABLES
    d_secret,      \* detect_secret_type: the argument `secret`
    d_result,      \* detect_secret_type: the returned value ("none" before the call)
    a_secret,      \* btc_address_from_private_key: the argument `my_secret`
    a_type,        \* btc_address_from_private_key: the argument `secret_type`
    a_out,         \* btc_address_from_private_key: how the call ended (exc "pending" before)
    m_file,        \* main: the input file, [exists, lines]
    m_args,        \* main: the parsed arguments, [secret_type, no_api, retries]
    m_pc,          \* main: "open" before open(), "loop" in the for loop, "done" after
    m_pos,         \* main: the number of lines read (line_number of the last one)
    m_trace,       \* main: per handled line, what was logged and the API calls made
    m_end,         \* main: how the run ended: "running", "eof", "file_not_found", "exception"
    fb_order,      \* fetch_with_fallback: the argument api_order
    fb_i,          \* fetch_with_fallback: the number of entries of api_order consumed
    fb_calls,      \* fetch_with_fallback: the fetcher calls made, [api, balance, received]
    fb_pc,         \* fetch_with_fallback: "loop" or "done"
    fb_ret,        \* fetch_with_fallback: the returned (balance, total_received, api_used)
    fr_retries,    \* fetch_balance: the argument `retries`
    fr_log,        \* fetch_balance: per HTTP request made, how it ended and the sleep after it
    fr_pc,         \* fetch_balance: "idle", "loop" or "done"
    fr_ret,        \* fetch_balance: how the call ended, [exc, value]
    bf_retries,    \* fetch_balance_for_btc_address: the argument `retries`
    bf_delay,      \* fetch_balance_for_btc_address: the argument `rate_delay`
    bf_outcomes,   \* fetch_balance_for_btc_address: what get_address does at each attempt
    bf_out,        \* fetch_balance_for_btc_address: the result and what the call did
    sf_fn,         \* single-shot fetcher: the function called
    sf_exchange,   \* single-shot fetcher: what the HTTP request meets
    sf_out,        \* single-shot fetcher: [done, requests, exc, value]
    lm_addresses,  \* check_balances: the argument `addresses`
    lm_limit,      \* check_balances: the argument `limit`, [given, n]
    lm_out,        \* check_balances: addr_list of each of the three scripts
    mc_addresses,  \* multi-API check_balances: the argument `addresses`
    mc_limit,      \* multi-API check_balances: the argument `limit`
    mc_answers,    \* multi-API check_balances: which answer fetch_with_fallback gives to each address
    mc_results,    \* multi-API check_balances: the list `results`
    mc_file,       \* multi-API check_balances: the rows of the output file (<<>>: not written)
    mc_prev,       \* multi-API check_balances: the rows of the output file before the last write
    mc_writes,     \* multi-API check_balances: the number of calls of _save_results
    mc_pc,         \* multi-API check_balances: "idle", "loop" or "done"
    cb_addresses,  \* derive check_balances: addr_list
    cb_workers,    \* derive check_balances: the argument `workers`
    cb_submitted,  \* derive check_balances: the number of fetches submitted to the executor
    cb_task,       \* derive check_balances: per address index, the state of its fetch
    cb_finish,     \* derive check_balances: the address indices in the order their fetches finished
    cb_pre,        \* derive check_balances: the fetches finished when as_completed was called
    cb_yield,      \* derive check_balances: the address indices in the order the loop handled them
    cb_results,    \* derive check_balances: the list `results`
    cb_file,       \* derive check_balances: [written, rows] of the output file
    cb_pc,         \* derive check_balances: "idle", "submit", "collect", "sequential", "write", "done"
    x_file,        \* extract_addresses: the lines of the CSV file (indices of CsvLines)
    x_out          \* extract_addresses: [done, addresses]

detectVars == <<d_secret, d_result>>
deriveVars == <<a_secret, a_type, a_out>>
mainVars == <<m_file, m_args, m_pc, m_pos, m_trace, m_end>>
fallbackVars == <<fb_order, fb_i, fb_calls, fb_pc, fb_ret>>

fetchVars == <<fr_retries, fr_log, fr_pc, fr_ret>>
batchVars == <<bf_retries, bf_delay, bf_outcomes, bf_out>>
fetcherVars == <<sf_fn, sf_exchange, sf_out>>
limitVars == <<lm_addresses, lm_limit, lm_out>>
multiVars ==
    <<mc_addresses, mc_limit, mc_answers, mc_results, mc_file, mc_prev,
      mc_writes, mc_pc>>
checkVars ==
    <<cb_addresses, cb_workers, cb_submitted, cb_task, cb_finish, cb_pre,
      cb_yield, cb_results, cb_file, cb_pc>>
extractVars == <<x_file, x_out>>

\* the variables of the scripts' core functions, and those of the balance
\* checking scripts
coreVars == <<detectVars, deriveVars, mainVars, fallbackVars>>
checkerVars ==
    <<fetchVars, batchVars, fetcherVars, limitVars, multiVars, checkVars,
      extractVars>>

vars == <<coreVars, checkerVars>>

----------------------------------------------------------------------------
(* Bounds of the model *)

\* longest run of whitespace put before or after a generated secret
MaxPad == 2
\* most lines of an input file of main
MaxLines == 2
\* largest --retries given to main
MaxRetries == 2
\* longest api_order given to fetch_with_fallback
MaxOrder == 3
\* generated secrets have every length 0..MaxShort, and every length within
\* LenSlack of the lengths the code and the claims name (50, 51, 52, 64)
MaxShort == 4
LenSlack == 1

----------------------------------------------------------------------------
(* Python int primitives *)

\* min(a, b)
Min2(a, b) == IF a < b THEN a ELSE b

\* 2 ** n for an int n >= 0
RECURSIVE Pow2(_)
Pow2(n) == IF n <= 0 THEN 1 ELSE 2 * Pow2(n - 1)

\* the longest sleep of derive_and_check_balance.fetch_balance, in seconds
SleepCap429 == 120

----------------------------------------------------------------------------
(* Python str primitives *)

\* str.strip() with no argument strips whitespace; these are the ASCII ones
\* the generated inputs use
Whitespace == {" ", "\t", "\n", "\r"}

HexDigits ==
    {"0", "1", "2", "3", "4", "5", "6", "7", "8", "9",
     "a", "b", "c", "d", "e", "f", "A", "B", "C", "D", "E", "F"}

\* the base58 alphabet of Bitcoin (no 0, O, I, l), in digit order
Base58Alphabet ==
    <<
      "1", "2", "3", "4", "5", "6", "7", "8", "9", "A", "B", "C",
      "D", "E", "F", "G", "H", "J", "K", "L", "M", "N", "P", "Q",
      "R", "S", "T", "U", "V", "W", "X", "Y", "Z", "a", "b", "c",
      "d", "e", "f", "g", "h", "i", "j", "k", "m", "n", "o", "p",
      "q", "r", "s", "t", "u", "v", "w", "x", "y", "z"
    >>

Base58Chars == {Base58Alphabet[i] : i \in 1..Len(Base58Alphabet)}

\* the seq of n copies of c
Repeat(c, n) == [i \in 1..n |-> c]

\* s.lstrip(): drop the leading whitespace
RECURSIVE lstrip(_)
lstrip(s) ==
    IF s = <<>> THEN <<>>
    ELSE IF Head(s) \in Whitespace THEN lstrip(Tail(s))
    ELSE s

\* s.rstrip(): drop the trailing whitespace
RECURSIVE rstrip(_)
rstrip(s) ==
    IF s = <<>> THEN <<>>
    ELSE IF s[Len(s)] \in Whitespace THEN rstrip(SubSeq(s, 1, Len(s) - 1))
    ELSE s

\* s.strip()
strip(s) == rstrip(lstrip(s))

\* s.startswith(p)
startswith(s, p) == Len(s) >= Len(p) /\ SubSeq(s, 1, Len(p)) = p

\* c in s
contains(s, c) == \E i \in 1..Len(s) : s[i] = c

----------------------------------------------------------------------------
(* btc_batch_verifier.detect_secret_type *)

ExtendedPrefixes ==
    {<<"x", "p", "r", "v">>, <<"x", "p", "u", "b">>,
     <<"t", "p", "r", "v">>, <<"t", "p", "u", "b">>}

\* line 34: s.startswith(("xprv", "xpub", "tprv", "tpub"))
IsExtendedRule(s) == \E p \in ExtendedPrefixes : startswith(s, p)

\* IsWifRule with a fault: the length test the comment at line 37 intends
IsWifRuleLen5152(s) == s[1] \in {"5", "K", "L"} /\ 51 <= Len(s) /\ Len(s) <= 52

\* IsWifRule with a fault: a lower bound only
IsWifRuleAtLeast51(s) == s[1] \in {"5", "K", "L"} /\ Len(s) >= 51

\* line 36: s[0] in ("5", "K", "L") and 50 >= len(s) >= 51  (s is non-empty here)
IsWifRule(s) == s[1] \in {"5", "K", "L"} /\ 50 >= Len(s) /\ Len(s) >= 51

\* line 39: len(s) == 64 and re.fullmatch(r"[0-9a-fA-F]{64}", s)
IsClassicRule(s) == Len(s) = 64 /\ \A i \in 1..Len(s) : s[i] \in HexDigits

\* line 41: s.startswith("S")
IsMiniRule(s) == startswith(s, <<"S">>)

\* detect_secret_type with a fault: the prefix rule tried before the space rule
detect_secret_type_prefix_first(secret) ==
    LET s == strip(secret) IN
    IF s = <<>> THEN "unknown"
    ELSE IF IsExtendedRule(s) THEN "extended"
    ELSE IF contains(s, " ") THEN "mnemonic"
    ELSE IF IsWifRule(s) THEN "WIF"
    ELSE IF IsClassicRule(s) THEN "classic"
    ELSE IF IsMiniRule(s) THEN "mini"
    ELSE "unknown"

detect_secret_type(secret) ==
    LET s == strip(secret) IN
    IF s = <<>> THEN "unknown"
    ELSE IF contains(s, " ") THEN "mnemonic"
    ELSE IF IsExtendedRule(s) THEN "extended"
    ELSE IF IsWifRule(s) THEN "WIF"
    ELSE IF IsClassicRule(s) THEN "classic"
    ELSE IF IsMiniRule(s) THEN "mini"
    ELSE "unknown"

----------------------------------------------------------------------------
(* The HD-wallet library btc_batch_verifier wraps (hdwallet.HDWallet).      *)
(* A private key is 32 bytes, held as its 64 lower-case hex digits.  WIF   *)
(* is a base58 serialization of the key with a checksum; it is modelled as *)
(* a block code (4 hex digits -> 3 base58 digits) with a 3-digit checksum, *)
(* 52 characters with a leading K.  An address is an injective image of    *)
(* the key.                                                                *)

HexLower ==
    <<"0", "1", "2", "3", "4", "5", "6", "7", "8", "9", "a", "b", "c", "d", "e", "f">>

Lower(c) ==
    CASE c = "A" -> "a" [] c = "B" -> "b" [] c = "C" -> "c"
      [] c = "D" -> "d" [] c = "E" -> "e" [] c = "F" -> "f"
      [] OTHER -> c

\* the value of each hex digit, and of each base58 digit
HexValues == [c \in HexDigits |-> CHOOSE v \in 0..15 : HexLower[v + 1] = Lower(c)]
B58Values == [c \in Base58Chars |-> CHOOSE v \in 0..57 : Base58Alphabet[v + 1] = c]

HexValue(c) == HexValues[c]

B58Value(c) == B58Values[c]

\* the value of the g-th group of 4 hex digits of k
HexGroup(k, g) ==
    4096 * HexValue(k[4 * g - 3]) + 256 * HexValue(k[4 * g - 2])
        + 16 * HexValue(k[4 * g - 1]) + HexValue(k[4 * g])

\* the value of the g-th group of 3 base58 digits of s
B58Group(s, g) ==
    3364 * B58Value(s[3 * g - 2]) + 58 * B58Value(s[3 * g - 1]) + B58Value(s[3 * g])

B58Digits(v) ==
    <<Base58Alphabet[(v \div 3364) + 1], Base58Alphabet[((v \div 58) % 58) + 1],
      Base58Alphabet[(v % 58) + 1]>>

HexDigitsOf(v) ==
    <<HexLower[(v \div 4096) + 1], HexLower[((v \div 256) % 16) + 1],
      HexLower[((v \div 16) % 16) + 1], HexLower[(v % 16) + 1]>>

RECURSIVE GroupSum(_, _)
GroupSum(k, g) == IF g = 0 THEN 0 ELSE (GroupSum(k, g - 1) + HexGroup(k, g)) % 65536

\* the outcome of a library call: a key was loaded, or the call raised
Loaded(k) == [ok |-> TRUE, key |-> k]
Raised == [ok |-> FALSE, key |-> <<>>]

\* a key is valid when it is in 1..n-1 (n the group order): not zero, and
\* not the all-ones value, which exceeds n
ValidKey(k) == k # Repeat("0", 64) /\ k # Repeat("f", 64)

\* HDWallet.from_private_key(private_key=s): unhexlify, then the range check
from_private_key(s) ==
    IF Len(s) = 64 /\ \A i \in 1..64 : s[i] \in HexDigits
    THEN LET k == [i \in 1..64 |-> Lower(s[i])]
         IN IF ValidKey(k) THEN Loaded(k) ELSE Raised
    ELSE Raised

\* HDWallet.wif(): the WIF serialization of the loaded key
wif(k) ==
    <<"K">> \o [i \in 1..48 |-> B58Digits(HexGroup(k, ((i - 1) \div 3) + 1))[((i - 1) % 3) + 1]]
            \o B58Digits(GroupSum(k, 16))

\* HDWallet.from_wif(wif=s): decode, check the checksum, then the range
from_wif(s) ==
    IF Len(s) = 52 /\ s[1] = "K" /\ \A i \in 1..52 : s[i] \in Base58Chars
    THEN LET body == SubSeq(s, 2, 49)
             check == SubSeq(s, 50, 52)
         IN IF \A g \in 1..16 : B58Group(body, g) < 65536
            THEN LET k == [i \in 1..64 |->
                              HexDigitsOf(B58Group(body, ((i - 1) \div 4) + 1))[((i - 1) % 4) + 1]]
                 IN IF B58Group(check, 1) = GroupSum(k, 16) /\ ValidKey(k)
                    THEN Loaded(k) ELSE Raised
            ELSE Raised
    ELSE Raised

\* HDWallet.p2pkh_address() of a wallet holding key k: a non-empty string
p2pkh_address(k) == <<"1">> \o k

----------------------------------------------------------------------------
(* btc_batch_verifier.btc_address_from_private_key *)

SupportedTypes == {"WIF", "classic", "extended", "mnemonic", "mini"}

\* what the library answers when given an extended key: from_xprivate_key
\* raises, or it loads a key and p2pkh_address raises, or both succeed
ExtKey == Repeat("e", 64)
ExtOutcomes == {"load_raises", "address_raises", "ok"}

\* LoadWallet with a fault: the WIF branch calls from_private_key
LoadWalletWifAsHex(my_secret, secret_type, ext) ==
    CASE secret_type = "WIF" -> from_private_key(my_secret)
      [] secret_type = "classic" -> from_private_key(my_secret)
      [] secret_type = "extended" ->
            IF ext = "load_raises" THEN Raised ELSE Loaded(ExtKey)
      [] secret_type = "mnemonic" -> Raised
      [] secret_type = "mini" -> Raised

\* lines 56-69: the try block that loads the secret into the wallet;
\* NotImplementedError is an Exception, so it is caught there too
LoadWallet(my_secret, secret_type, ext) ==
    CASE secret_type = "WIF" -> from_wif(my_secret)
      [] secret_type = "classic" -> from_private_key(my_secret)
      [] secret_type = "extended" ->
            IF ext = "load_raises" THEN Raised ELSE Loaded(ExtKey)
      [] secret_type = "mnemonic" -> Raised
      [] secret_type = "mini" -> Raised

\* the library call made at lines 57-66
LibCall(secret_type) ==
    CASE secret_type = "WIF" -> "from_wif"
      [] secret_type = "classic" -> "from_private_key"
      [] secret_type = "extended" -> "from_xprivate_key"
      [] OTHER -> "none"

\* the outcome of a call: exc is the exception that left the function
\* ("none" when it returned), ret the returned string, stype the secret type
\* after line 50, lib the library loader called, ext the library's answer
\* for an extended key (when it was asked)
Outcome(exc, ret, stype, lib, ext) ==
    [exc |-> exc, ret |-> ret, stype |-> stype, lib |-> lib, ext |-> ext]

btc_address_from_private_key(my_secret, secret_type0, ext) ==
    LET secret_type ==
            IF secret_type0 = "auto" THEN detect_secret_type(my_secret) ELSE secret_type0
        used == IF secret_type = "extended" THEN ext ELSE "unused"
    IN  IF secret_type \notin SupportedTypes
        THEN Outcome("ValueError", <<>>, secret_type, "none", used)
        ELSE LET w == LoadWallet(my_secret, secret_type, ext)
             IN IF ~w.ok
                THEN Outcome("none", <<>>, secret_type, LibCall(secret_type), used)
                ELSE IF secret_type = "extended" /\ ext = "address_raises"
                THEN Outcome("none", <<>>, secret_type, LibCall(secret_type), used)
                ELSE Outcome("none", p2pkh_address(w.key), secret_type,
                             LibCall(secret_type), used)

----------------------------------------------------------------------------
(* The secrets the detector is run on *)

SecretHeads ==
    {<<>>, <<"5">>, <<"K">>, <<"L">>, <<"S">>, <<"a">>, <<"G">>} \cup ExtendedPrefixes

SecretFills == {"a", "F", "7", "z"}

SecretLens ==
    (0..MaxShort) \cup ((50 - LenSlack)..(52 + LenSlack))
                  \cup ((64 - LenSlack)..(64 + LenSlack))

\* head followed by copies of fill, n characters in all
Padded(head, fill, n) == head \o Repeat(fill, n - Len(head))

\* s with the inner character at position k replaced by c
WithInner(s, k, c) == [i \in 1..Len(s) |-> IF i = k THEN c ELSE s[i]]

InnerChars == {" ", "\t", "g"}

SecretBodies ==
    LET plain == {Padded(h, f, n) : <<h, f, n>> \in
                     {t \in SecretHeads \X SecretFills \X SecretLens :
                         t[3] >= Len(t[1])}}
    IN plain \cup {WithInner(t[1], 2, t[2]) : t \in
                     {t \in plain \X InnerChars : Len(t[1]) >= 3}}
             \cup {WithInner(t[1], Len(t[1]) - 1, t[2]) : t \in
                     {t \in plain \X InnerChars : Len(t[1]) >= 6}}

Pads == UNION {{Repeat(w, n) : w \in {" ", "\n"}} : n \in 0..MaxPad}

DetectInputs == {l \o b \o r : <<l, b, r>> \in Pads \X SecretBodies \X Pads}

----------------------------------------------------------------------------
(* detect_secret_type run on one secret *)

DetectInit ==
    /\ d_secret \in DetectInputs
    /\ d_result = "none"

DetectIdle ==
    /\ d_secret = <<>>
    /\ d_result = "none"

Detect ==
    /\ d_result = "none"
    /\ d_result' = detect_secret_type(d_secret)
    /\ UNCHANGED d_secret

----------------------------------------------------------------------------
(* btc_address_from_private_key run on one secret and one secret_type *)

\* private keys as hex: valid ones in lower, upper and mixed case, and the
\* two out-of-range values
HexKeys ==
    {Padded(<<"5">>, "a", 64), Padded(<<"6", "c", "d", "7">>, "0", 64),
     Padded(<<"A", "b">>, "C", 64), Repeat("0", 64), Repeat("F", 64)}

\* the WIF serializations of the valid keys, and one with a wrong checksum
WifKeys ==
    LET good == {wif(from_private_key(h).key) : h \in {h \in HexKeys : from_private_key(h).ok}}
    IN good \cup {WithInner(w, 51, IF w[51] = "z" THEN "y" ELSE "z") : w \in good}

DeriveSecrets ==
    HexKeys \cup WifKeys \cup
    {l \o b \o r : <<l, b, r>> \in
        {<<>>, <<" ">>} \X {b \in SecretBodies : ~contains(b, "F") /\ ~contains(b, "7")
                                                  /\ ~contains(b, "z")}
                        \X {<<>>, <<"\n">>}}

\* every secret_type the CLI accepts, and what main passes on when nothing
\* was detected
DeriveTypes == {"auto", "unknown"} \cup SupportedTypes

Pending == Outcome("pending", <<>>, "", "none", "unused")

DeriveInit ==
    /\ a_secret \in DeriveSecrets
    /\ a_type \in DeriveTypes
    /\ a_out = Pending

DeriveIdle ==
    /\ a_secret = <<>>
    /\ a_type = "auto"
    /\ a_out = Pending

Derive ==
    /\ a_out = Pending
    /\ \E ext \in ExtOutcomes :
          a_out' = btc_address_from_private_key(a_secret, a_type, ext)
    /\ UNCHANGED <<a_secret, a_type>>

----------------------------------------------------------------------------
(* btc_batch_verifier.fetch_balance_for_btc_address *)

\* what btc_explorer.get_address does on one attempt: it raises, or it
\* returns an object with balance and tx_count
ApiFail == [ok |-> FALSE, balance |-> 0, tx_count |-> 0]
ApiOutcomes == {ApiFail, [ok |-> TRUE, balance |-> 5, tx_count |-> 2]}

\* the result of the call: found is FALSE for None; attempts is the number of
\* get_address calls made; sleeps the arguments of the sleep calls, in order
FetchResult(found, balance, tx_count, attempts, sleeps) ==
    [found |-> found, balance |-> balance, tx_count |-> tx_count,
     attempts |-> attempts, sleeps |-> sleeps]

\* lines 82-95 with a fault: the first failed attempt gives up
FetchLoopNoRetry(outcomes, retries, rate_delay, attempt, backoff, sleeps) ==
    IF attempt > retries
    THEN FetchResult(FALSE, 0, 0, attempt - 1, sleeps)
    ELSE IF outcomes[attempt].ok
    THEN FetchResult(TRUE, outcomes[attempt].balance, outcomes[attempt].tx_count,
                     attempt, Append(sleeps, rate_delay))
    ELSE FetchResult(FALSE, 0, 0, attempt, sleeps)

\* lines 82-95: the for loop from `attempt` on; outcomes[a] is what the API
\* does on attempt a
RECURSIVE FetchLoop(_, _, _, _, _, _)
FetchLoop(outcomes, retries, rate_delay, attempt, backoff, sleeps) ==
    IF attempt > retries
    THEN FetchResult(FALSE, 0, 0, attempt - 1, sleeps)
    ELSE IF outcomes[attempt].ok
    THEN FetchResult(TRUE, outcomes[attempt].balance, outcomes[attempt].tx_count,
                     attempt, Append(sleeps, rate_delay))
    ELSE IF attempt < retries
    THEN FetchLoop(outcomes, retries, rate_delay, attempt + 1, backoff * 2,
                   Append(sleeps, backoff))
    ELSE FetchResult(FALSE, 0, 0, attempt, sleeps)

fetch_balance_for_btc_address(outcomes, retries, rate_delay) ==
    FetchLoop(outcomes, retries, rate_delay, 1, 1, <<>>)

----------------------------------------------------------------------------
(* btc_batch_verifier.main *)

\* the lines an input file is made of; a file holds them by their number
\* in this table
MainLines ==
    << <<"\n">>,
       <<" ", "#", "k", "\n">>,
       Padded(<<"5">>, "a", 64) \o <<"\n">>,
       <<" ">> \o wif(Padded(<<"5">>, "a", 64)) \o <<"\n">>,
       <<"n", "o", "-", "k", "e", "y">>,
       <<"S", "a", "b", "\n">>,
       <<"x", "p", "r", "v", "9", "\n">>,
       <<"a", " ", "b", "\n">> >>

\* the text of line n of file f
LineText(f, n) == MainLines[f.lines[n]]

RECURSIVE FilesOf(_)
FilesOf(n) ==
    IF n = 0 THEN {<<>>}
    ELSE LET shorter == FilesOf(n - 1)
         IN shorter \cup {Append(t[1], t[2]) : t \in
                            {t \in shorter \X (1..Len(MainLines)) : Len(t[1]) = n - 1}}

\* --secret-type choices at line 101
CliSecretTypes == {"auto", "WIF", "classic", "extended", "mnemonic", "mini"}

\* the --rate-delay of the runs
RateDelay == 1

MainInit ==
    /\ m_file \in {[exists |-> FALSE, lines |-> <<>>]}
                  \cup {[exists |-> TRUE, lines |-> f] : f \in FilesOf(MaxLines)}
    /\ m_args \in [secret_type : CliSecretTypes, no_api : BOOLEAN, retries : 0..MaxRetries]
    /\ m_pc = "open"
    /\ m_pos = 0
    /\ m_trace = <<>>
    /\ m_end = "running"

MainIdle ==
    /\ m_file = [exists |-> FALSE, lines |-> <<>>]
    /\ m_args = [secret_type |-> "auto", no_api |-> TRUE, retries |-> 0]
    /\ m_pc = "open"
    /\ m_pos = 0
    /\ m_trace = <<>>
    /\ m_end = "running"

\* one entry of the trace: the line number, what the iteration logged, the
\* secret type used, and the number of get_address calls it made
TraceEntry(line_number, event, stype, api_calls) ==
    [line |-> line_number, event |-> event, stype |-> stype, api_calls |-> api_calls]

\* line 118: the lines the loop skips
IsSkipped(my_secret) == my_secret = <<>> \/ startswith(my_secret, <<"#">>)

\* line 121
SecretTypeFor(args, my_secret) ==
    IF args.secret_type # "auto" THEN args.secret_type ELSE detect_secret_type(my_secret)

\* the library is asked about an extended key only at line 62
ExtAnswers(secret_type) ==
    IF secret_type = "extended" THEN ExtOutcomes ELSE {"load_raises"}

\* line 136: the API is asked at most args.retries times, and not with --no-api
ApiAttempts(args) == IF args.no_api THEN 0 ELSE args.retries

\* Caught with a fault: the except ValueError clause is missing
CaughtNotImplementedOnly(exc) == exc = "NotImplementedError"

\* lines 125, 128: the exceptions of btc_address_from_private_key the loop
\* body catches; any other leaves the loop and main
Caught(exc) == exc \in {"NotImplementedError", "ValueError"}

\* lines 121-144: the body of the loop for a line that is not skipped
HandleSecret(line_number, my_secret, args, ext, outcomes) ==
    LET secret_type == SecretTypeFor(args, my_secret)
        out == btc_address_from_private_key(my_secret, secret_type, ext)
    IN  IF out.exc # "none"
        THEN IF ~Caught(out.exc)
             THEN TraceEntry(line_number, "uncaught", secret_type, 0)
             ELSE IF out.exc = "NotImplementedError"
             THEN TraceEntry(line_number, "unsupported", secret_type, 0)
             ELSE TraceEntry(line_number, "invalid_type", secret_type, 0)
        ELSE IF out.ret = <<>>
        THEN TraceEntry(line_number, "no_address", secret_type, 0)
        ELSE IF args.no_api
        THEN TraceEntry(line_number, "address", secret_type, 0)
        ELSE LET bal == fetch_balance_for_btc_address(outcomes, args.retries, RateDelay)
             IN IF ~bal.found
                THEN TraceEntry(line_number, "balance_error", secret_type, bal.attempts)
                ELSE TraceEntry(line_number, "balance", secret_type, bal.attempts)

\* lines 115, 146-147: open() succeeds, or raises FileNotFoundError, which
\* is logged and ends main
Open ==
    /\ m_pc = "open"
    /\ IF m_file.exists
       THEN m_pc' = "loop" /\ m_end' = m_end
       ELSE m_pc' = "done" /\ m_end' = "file_not_found"
    /\ UNCHANGED <<m_file, m_args, m_pos, m_trace>>

\* lines 116-144: one iteration of the loop over the lines of the file; an
\* exception the body does not catch is not a FileNotFoundError either, and
\* ends main
ReadLine ==
    /\ m_pc = "loop"
    /\ m_pos < Len(m_file.lines)
    /\ LET line_number == m_pos + 1
           my_secret == strip(LineText(m_file, line_number))
       IN /\ m_pos' = line_number
          /\ IF IsSkipped(my_secret)
             THEN UNCHANGED <<m_trace, m_pc, m_end>>
             ELSE \E ext \in ExtAnswers(SecretTypeFor(m_args, my_secret)),
                     outcomes \in [1..ApiAttempts(m_args) -> ApiOutcomes] :
                     LET entry == HandleSecret(line_number, my_secret, m_args, ext, outcomes)
                     IN /\ m_trace' = Append(m_trace, entry)
                        /\ IF entry.event = "uncaught"
                           THEN m_pc' = "done" /\ m_end' = "exception"
                           ELSE UNCHANGED <<m_pc, m_end>>
    /\ UNCHANGED <<m_file, m_args>>

\* line 116: the file is exhausted, the with block and main end
EndOfFile ==
    /\ m_pc = "loop"
    /\ m_pos = Len(m_file.lines)
    /\ m_pc' = "done"
    /\ m_end' = "eof"
    /\ UNCHANGED <<m_file, m_args, m_pos, m_trace>>

----------------------------------------------------------------------------
(* check_balance_multi_api: the single-shot fetchers *)

\* what requests.get and the parsing of its body do: an exception
\* (connection error, timeout, HTTP status, bad body), or a JSON object whose
\* two fields of interest hold a and b
HttpValues == {0, 4, 9}
HttpResponses == {[ok |-> FALSE, a |-> 0, b |-> 0]}
                 \cup {[ok |-> TRUE, a |-> x, b |-> y] : x \in HttpValues \cup {-2}, y \in HttpValues}

\* lines 51-62: a is final_balance, b is total_received
fetch_blockcypher(resp) == IF resp.ok THEN <<resp.a, resp.b>> ELSE <<-1, -1>>

\* lines 65-76: a is final_balance, b is total_received
fetch_blockchain_com(resp) == IF resp.ok THEN <<resp.a, resp.b>> ELSE <<-1, -1>>

\* lines 79-91: a is chain_stats.funded_txo_sum, b is chain_stats.spent_txo_sum
fetch_blockstream(resp) == IF resp.ok THEN <<resp.a - resp.b, resp.a>> ELSE <<-1, -1>>

----------------------------------------------------------------------------
(* check_balance_multi_api.fetch_with_fallback *)

KnownApis == {"blockcypher", "blockchain", "blockstream"}
ApiNames == KnownApis \cup {"mempool"}

RECURSIVE OrdersOf(_)
OrdersOf(n) ==
    IF n = 0 THEN {<<>>}
    ELSE LET shorter == OrdersOf(n - 1)
         IN shorter \cup {Append(t[1], t[2]) : t \in
                            {t \in shorter \X ApiNames : Len(t[1]) = n - 1}}

\* IsSuccess with a fault: a zero balance is taken for a failure
IsSuccessPositive(balance) == balance > 0

\* IsSuccess with a fault: only the sentinel is taken for a failure
IsSuccessNotSentinel(balance) == balance # -1

\* line 109
IsSuccess(balance) == balance >= 0

\* lines 100-105: the fetcher the name selects
FetchBy(api_name, resp) ==
    CASE api_name = "blockcypher" -> fetch_blockcypher(resp)
      [] api_name = "blockchain" -> fetch_blockchain_com(resp)
      [] api_name = "blockstream" -> fetch_blockstream(resp)

NoReturn == [balance |-> 0, received |-> 0, api_used |-> ""]

FallbackInit ==
    /\ fb_order \in OrdersOf(MaxOrder)
    /\ fb_i = 0
    /\ fb_calls = <<>>
    /\ fb_pc = "loop"
    /\ fb_ret = NoReturn

FallbackIdle ==
    /\ fb_order = <<>>
    /\ fb_i = 0
    /\ fb_calls = <<>>
    /\ fb_pc = "loop"
    /\ fb_ret = NoReturn

\* lines 99-110: an iteration for a known name: one fetcher call, and the
\* return when it succeeded
TryApi ==
    /\ fb_pc = "loop"
    /\ fb_i < Len(fb_order)
    /\ fb_order[fb_i + 1] \in KnownApis
    /\ \E resp \in HttpResponses :
          LET api_name == fb_order[fb_i + 1]
              got == FetchBy(api_name, resp)
          IN /\ fb_calls' = Append(fb_calls,
                               [api |-> api_name, balance |-> got[1], received |-> got[2]])
             /\ fb_i' = fb_i + 1
             /\ IF IsSuccess(got[1])
                THEN /\ fb_pc' = "done"
                     /\ fb_ret' = [balance |-> got[1], received |-> got[2],
                                   api_used |-> api_name]
                ELSE UNCHANGED <<fb_pc, fb_ret>>
    /\ UNCHANGED fb_order

\* lines 106-107: an iteration for any other name
SkipUnknown ==
    /\ fb_pc = "loop"
    /\ fb_i < Len(fb_order)
    /\ fb_order[fb_i + 1] \notin KnownApis
    /\ fb_i' = fb_i + 1
    /\ UNCHANGED <<fb_order, fb_calls, fb_pc, fb_ret>>

\* line 112: the list is exhausted
ReturnAllFailed ==
    /\ fb_pc = "loop"
    /\ fb_i = Len(fb_order)
    /\ fb_pc' = "done"
    /\ fb_ret' = [balance |-> -1, received |-> -1, api_used |-> "all_failed"]
    /\ UNCHANGED <<fb_order, fb_i, fb_calls>>

----------------------------------------------------------------------------
(* derive_and_check_balance.fetch_balance *)

\* most `retries` given to fetch_balance (its default is 7)
MaxFetchRetries == 7

\* line 62 with a fault: one iteration too many
HasAttemptOffByOne(done, retries) == done <= retries

\* line 62: `for attempt in range(retries)` has a next value after `done`
\* iterations
HasAttempt(done, retries) == done < retries

\* line 66 with a fault: the sleep after an HTTP 429 without its cap
Sleep429Uncapped(attempt) == 10 * Pow2(attempt)

\* line 66: min(10 * (2 ** attempt), 120)
Sleep429(attempt) == Min2(10 * Pow2(attempt), SleepCap429)

\* line 78: min(3 * (attempt + 1), 20)
SleepExc(attempt) == Min2(3 * (attempt + 1), 20)

\* what one session.get of fetch_balance can meet: an HTTP 429, an exception
\* (session.get raising, raise_for_status on another error status, a body
\* that is not JSON, a field int() rejects), or a good body with its four
\* sums
FetchResponses ==
    {[kind |-> k, cf |-> 0, cs |-> 0, mf |-> 0, ms |-> 0] :
        k \in {"429", "conn_error", "http_error", "bad_body"}}
    \cup {[kind |-> "ok", cf |-> 9, cs |-> 4, mf |-> 0, ms |-> 0],
          [kind |-> "ok", cf |-> 7, cs |-> 7, mf |-> 1, ms |-> 3]}

\* lines 72-76: (confirmed, mempool_delta, total) of a good body
BalanceOf(resp) ==
    <<resp.cf - resp.cs, resp.mf - resp.ms,
      (resp.cf - resp.cs) + (resp.mf - resp.ms)>>

NoBalance == <<0, 0, 0>>

FetchInit ==
    /\ fr_retries \in -1..MaxFetchRetries
    /\ fr_log = <<>>
    /\ fr_pc = "loop"
    /\ fr_ret = [exc |-> "pending", value |-> NoBalance]

FetchIdle ==
    /\ fr_retries = 0
    /\ fr_log = <<>>
    /\ fr_pc = "idle"
    /\ fr_ret = [exc |-> "pending", value |-> NoBalance]

\* lines 62-79: one iteration of the loop, for the attempt numbered Len(fr_log)
FetchAttempt ==
    /\ fr_pc = "loop"
    /\ HasAttempt(Len(fr_log), fr_retries)
    /\ \E resp \in FetchResponses :
        LET attempt == Len(fr_log) IN
        IF resp.kind = "429"
        THEN /\ fr_log' = Append(fr_log, [kind |-> "429",
                                          sleep |-> Sleep429(attempt),
                                          value |-> NoBalance])
             /\ UNCHANGED <<fr_pc, fr_ret>>
        ELSE IF resp.kind = "ok"
        THEN /\ fr_log' = Append(fr_log, [kind |-> "ok", sleep |-> 0,
                                          value |-> BalanceOf(resp)])
             /\ fr_pc' = "done"
             /\ fr_ret' = [exc |-> "none", value |-> BalanceOf(resp)]
        ELSE /\ fr_log' = Append(fr_log, [kind |-> "exception",
                                          sleep |-> SleepExc(attempt),
                                          value |-> NoBalance])
             /\ UNCHANGED <<fr_pc, fr_ret>>
    /\ UNCHANGED fr_retries

\* line 81: the loop ran out of attempts
FetchRaise ==
    /\ fr_pc = "loop"
    /\ ~HasAttempt(Len(fr_log), fr_retries)
    /\ fr_pc' = "done"
    /\ fr_ret' = [exc |-> "RuntimeError", value |-> NoBalance]
    /\ UNCHANGED <<fr_retries, fr_log>>

----------------------------------------------------------------------------
(* btc_batch_verifier.fetch_balance_for_btc_address, called on its own *)

\* most `retries` given to fetch_balance_for_btc_address (--retries is any
\* int; the default is 3)
MaxBatchRetries == 9

\* the values of rate_delay (--rate-delay; a number of seconds to sleep)
RateDelays == {0, 3}

\* what client.get_address does at one attempt: it raises, or it returns
\* the dict whose final_balance and n_tx line 87 reads
BatchOutcomes ==
    ApiOutcomes \cup {[ok |-> TRUE, balance |-> 0, tx_count |-> 0]}

PendingFetch == [done |-> FALSE, result |-> FetchResult(FALSE, 0, 0, 0, <<>>)]

BatchInit ==
    /\ bf_retries \in -1..MaxBatchRetries
    /\ bf_delay \in RateDelays
    /\ bf_outcomes \in [1..bf_retries -> BatchOutcomes]
    /\ bf_out = PendingFetch

BatchIdle ==
    /\ bf_retries = 0
    /\ bf_delay = 0
    /\ bf_outcomes = <<>>
    /\ bf_out = PendingFetch

\* lines 79-95: one call
BatchFetch ==
    /\ ~bf_out.done
    /\ bf_out' =
        [done |-> TRUE,
         result |-> fetch_balance_for_btc_address(bf_outcomes, bf_retries,
                                                  bf_delay)]
    /\ UNCHANGED <<bf_retries, bf_delay, bf_outcomes>>

----------------------------------------------------------------------------
(* The single-shot fetchers, against what one HTTP request can meet *)

\* the final status of a response: success, a redirect that requests does
\* not follow, and client and server errors
HttpStatuses == {200, 301, 404, 429, 500}

\* the body of a response: a JSON object with numeric fields, a JSON value
\* whose fields int() or `-` reject, or text that is not JSON
HttpBodies == {"json", "bad_fields", "not_json"}

\* what requests.get meets: it raises (no connection, timeout), or a
\* response arrives with a status and a body holding a and b
HttpExchanges ==
    {[net |-> n, status |-> 200, body |-> "not_json", a |-> 0, b |-> 0] :
        n \in {"conn_error", "timeout"}}
    \cup {[net |-> "ok", status |-> st, body |-> bd, a |-> x, b |-> y] :
            st \in HttpStatuses, bd \in HttpBodies,
            x \in HttpValues, y \in HttpValues}

\* raise_for_status raises for the statuses 400..599
IsErrorStatus(status) == status >= 400 /\ status < 600

\* the try block with a fault: no raise_for_status
ReceivedStatusIgnored(x) ==
    [ok |-> x.net = "ok" /\ x.body = "json", a |-> x.a, b |-> x.b]

\* the try block of the four fetchers built on raise_for_status: requests.get,
\* raise_for_status, resp.json() and the int() of the two fields all pass
\* (ok), or one of them raises
Received(x) ==
    [ok |-> x.net = "ok" /\ ~IsErrorStatus(x.status) /\ x.body = "json",
     a |-> x.a, b |-> x.b]

\* check_balance_blockchain_com.py lines 49-64: a is final_balance, b is
\* total_received
fetch_balance_blockchain(resp) ==
    IF resp.ok THEN <<resp.a, resp.b>> ELSE <<-1, -1>>

\* btc_check_from_list.py lines 7-17: a is chain_stats.funded_txo_sum, b is
\* chain_stats.spent_txo_sum
get_btc_balance(x) ==
    IF x.net # "ok" THEN -1
    ELSE IF x.status = 200
    THEN IF x.body = "json" THEN x.a - x.b ELSE -1
    ELSE -1

SingleShotFetchers ==
    {"fetch_blockcypher", "fetch_blockchain_com", "fetch_blockstream",
     "fetch_balance_blockchain", "get_btc_balance"}

\* the value the fetcher `fn` returns, as a tuple
FetcherValue(fn, x) ==
    IF fn = "fetch_blockcypher" THEN fetch_blockcypher(Received(x))
    ELSE IF fn = "fetch_blockchain_com" THEN fetch_blockchain_com(Received(x))
    ELSE IF fn = "fetch_blockstream" THEN fetch_blockstream(Received(x))
    ELSE IF fn = "fetch_balance_blockchain"
    THEN fetch_balance_blockchain(Received(x))
    ELSE <<get_btc_balance(x)>>

NotCalled == [done |-> FALSE, requests |-> 0, exc |-> "none", value |-> <<>>]

FetcherInit ==
    /\ sf_fn \in SingleShotFetchers
    /\ sf_exchange \in HttpExchanges
    /\ sf_out = NotCalled

FetcherIdle ==
    /\ sf_fn = "fetch_blockcypher"
    /\ sf_exchange = [net |-> "ok", status |-> 200, body |-> "json", a |-> 0, b |-> 0]
    /\ sf_out = NotCalled

\* one call of a fetcher: the one requests.get of its try block, and the
\* return of its try or except branch
CallFetcher ==
    /\ ~sf_out.done
    /\ sf_out' = [done |-> TRUE, requests |-> 1, exc |-> "none",
                  value |-> FetcherValue(sf_fn, sf_exchange)]
    /\ UNCHANGED <<sf_fn, sf_exchange>>

----------------------------------------------------------------------------
(* The limit of check_balances, in the three scripts *)

\* most addresses given to check_balances
MaxAddresses == 3

\* --limit is type=int with default None: absent, or any int
Limits ==
    {[given |-> FALSE, n |-> 0]}
    \cup {[given |-> TRUE, n |-> k] : k \in -1..(MaxAddresses + 1)}

\* the list s[:n]
Slice(s, n) ==
    IF n >= 0 THEN SubSeq(s, 1, Min2(n, Len(s)))
    ELSE SubSeq(s, 1, Len(s) + n)

\* the truth value of `limit`: None and 0 are false
Truthy(limit) == limit.given /\ limit.n # 0

\* check_balance_multi_api.py line 122
LimitMultiApi(addresses, limit) ==
    IF Truthy(limit) THEN Slice(addresses, limit.n) ELSE addresses

\* check_balance_blockchain_com.py line 74
LimitBlockchainCom(addresses, limit) ==
    IF Truthy(limit) THEN Slice(addresses, limit.n) ELSE addresses

\* derive_and_check_balance.py lines 91-93
LimitDerive(addresses, limit) ==
    IF Truthy(limit) THEN Slice(addresses, limit.n) ELSE addresses

\* the lists of distinct addresses (extract_addresses returns no address
\* twice); an address is a number
AddressLists ==
    UNION {{s \in [1..n -> 1..MaxAddresses] :
                \A i, j \in 1..n : i # j => s[i] # s[j]} :
           n \in 0..MaxAddresses}

LimitInit ==
    /\ lm_addresses \in AddressLists
    /\ lm_limit \in Limits
    /\ lm_out = [done |-> FALSE, multi_api |-> <<>>, blockchain_com |-> <<>>,
                 derive |-> <<>>]

LimitIdle ==
    /\ lm_addresses = <<>>
    /\ lm_limit = [given |-> FALSE, n |-> 0]
    /\ lm_out = [done |-> FALSE, multi_api |-> <<>>, blockchain_com |-> <<>>,
                 derive |-> <<>>]

\* addr_list as each script computes it
ApplyLimit ==
    /\ ~lm_out.done
    /\ lm_out' = [done |-> TRUE,
                  multi_api |-> LimitMultiApi(lm_addresses, lm_limit),
                  blockchain_com |-> LimitBlockchainCom(lm_addresses, lm_limit),
                  derive |-> LimitDerive(lm_addresses, lm_limit)]
    /\ UNCHANGED <<lm_addresses, lm_limit>>

----------------------------------------------------------------------------
(* check_balance_multi_api.check_balances *)

\* line 152: the results are saved at every index that is a multiple of this
SavePeriod == 100

\* most addresses given to the multi-API check_balances
MaxChecked == 201

\* the numbers of addresses tried: none, one, and those next to a multiple
\* of SavePeriod
CheckedCounts ==
    {n \in 0..MaxChecked :
        n <= 1 \/ n % SavePeriod \in {0, 1, SavePeriod - 1}}

\* the values of `limit` tried
MultiLimits ==
    {[given |-> FALSE, n |-> 0], [given |-> TRUE, n |-> 0],
     [given |-> TRUE, n |-> SavePeriod + 1]}

\* returns of fetch_with_fallback: a success of the first API, the failure
\* of all, a success of the last API with a zero balance
MultiAnswers ==
    <<[balance |-> 9, received |-> 9, api_used |-> "blockcypher"],
      [balance |-> -1, received |-> -1, api_used |-> "all_failed"],
      [balance |-> 0, received |-> 4, api_used |-> "blockstream"]>>

\* the answer to the address `addr` when the answers rotate from `shift`
AnswerFor(addr, shift) == MultiAnswers[((addr + shift) % Len(MultiAnswers)) + 1]

\* line 170 of _save_results
MultiHeader ==
    <<"address", "balance_sats", "total_received_sats", "balance_btc",
      "api_used">>

\* line 134 and the f"{btc:.8f}" of line 175: the balance in units of 1e-8
\* BTC, 0 for a failed fetch
BtcColumn(balance) == IF balance >= 0 THEN balance ELSE 0

\* line 135: the tuple appended to results
MultiRow(addr, answer) ==
    [address |-> addr, balance |-> answer.balance,
     received |-> answer.received, btc |-> BtcColumn(answer.balance),
     api_used |-> answer.api_used]

NoFile == [written |-> FALSE, header |-> <<>>, rows |-> <<>>]

\* _save_results with a fault: the file is opened for appending
SaveResultsAppending(old, results) ==
    [written |-> TRUE, header |-> MultiHeader, rows |-> old.rows \o results]

\* lines 169-175: _save_results opens the file with "w", which drops the old
\* content, and writes the header and one row per result
SaveResults(old, results) ==
    [written |-> TRUE, header |-> MultiHeader, rows |-> results]

MultiInit ==
    /\ mc_addresses \in {[i \in 1..n |-> i] : n \in CheckedCounts}
    /\ mc_limit \in MultiLimits
    /\ mc_answers \in 0..(Len(MultiAnswers) - 1)
    /\ mc_results = <<>>
    /\ mc_file = NoFile
    /\ mc_prev = NoFile
    /\ mc_writes = 0
    /\ mc_pc = "loop"

MultiIdle ==
    /\ mc_addresses = <<>>
    /\ mc_limit = [given |-> FALSE, n |-> 0]
    /\ mc_answers = 0
    /\ mc_results = <<>>
    /\ mc_file = NoFile
    /\ mc_prev = NoFile
    /\ mc_writes = 0
    /\ mc_pc = "idle"

\* line 122
MultiAddrList == LimitMultiApi(mc_addresses, mc_limit)

\* lines 132-157: one iteration of the loop, with its auto-save
CheckOne ==
    /\ mc_pc = "loop"
    /\ Len(mc_results) < Len(MultiAddrList)
    /\ LET idx == Len(mc_results) + 1
           addr == MultiAddrList[idx]
           results == Append(mc_results,
                             MultiRow(addr, AnswerFor(addr, mc_answers)))
       IN /\ mc_results' = results
          /\ IF idx % SavePeriod = 0
             THEN /\ mc_file' = SaveResults(mc_file, results)
                  /\ mc_prev' = mc_file
                  /\ mc_writes' = mc_writes + 1
             ELSE UNCHANGED <<mc_file, mc_prev, mc_writes>>
    /\ UNCHANGED <<mc_addresses, mc_limit, mc_answers, mc_pc>>

\* line 159: the final save
FinalSave ==
    /\ mc_pc = "loop"
    /\ Len(mc_results) = Len(MultiAddrList)
    /\ mc_file' = SaveResults(mc_file, mc_results)
    /\ mc_prev' = mc_file
    /\ mc_writes' = mc_writes + 1
    /\ mc_pc' = "done"
    /\ UNCHANGED <<mc_addresses, mc_limit, mc_answers, mc_results>>

----------------------------------------------------------------------------
(* derive_and_check_balance.check_balances *)

\* most workers given to check_balances (--workers is any int)
MaxWorkers == 3

\* line 104: satoshis per BTC
SatsPerBtc == 100000000

\* the lists addr_list: distinct addresses 1..n
CheckLists == {[i \in 1..n |-> i] : n \in 0..MaxAddresses}

\* what fetch_balance returns for `addr` when it does not raise
FetchedBalance(addr) == <<addr + 1, 0 - addr, 1>>

\* the tuples of results; total_btc is kept in units of 1e-8 BTC
BalanceRow(addr, confirmed, mempool, total, total_btc) ==
    [address |-> addr, confirmed |-> confirmed, mempool |-> mempool,
     total |-> total, total_btc |-> total_btc]

\* the try statement with a fault: the except branch appends nothing
CollectRowDroppingFailed(results, addr, outcome) ==
    IF outcome = "ok"
    THEN LET b == FetchedBalance(addr)
         IN Append(results, BalanceRow(addr, b[1], b[2], b[3], b[3]))
    ELSE results

\* the try statement with a fault: rows are put at the front of results
CollectRowInFront(results, addr, outcome) ==
    IF outcome = "ok"
    THEN LET b == FetchedBalance(addr)
         IN <<BalanceRow(addr, b[1], b[2], b[3], b[3])>> \o results
    ELSE <<BalanceRow(addr, -1, -1, -1, 0 - SatsPerBtc)>> \o results

\* lines 102-110 and 121-129: the try statement around one fetch; `outcome`
\* is "ok" when fetch_balance returned and "err" when it raised
CollectRow(results, addr, outcome) ==
    IF outcome = "ok"
    THEN LET b == FetchedBalance(addr)
         IN Append(results, BalanceRow(addr, b[1], b[2], b[3], b[3]))
    ELSE Append(results, BalanceRow(addr, -1, -1, -1, 0 - SatsPerBtc))

\* the elements of the sequence s that are not in the set skip, in order
RECURSIVE Without(_, _)
Without(s, skip) ==
    IF s = <<>> THEN <<>>
    ELSE IF Head(s) \in skip THEN Without(Tail(s), skip)
    ELSE <<Head(s)>> \o Without(Tail(s), skip)

SeqRange(s) == {s[i] : i \in 1..Len(s)}

\* line 118: the futures as_completed may yield next. Those finished when it
\* was called come first, in the iteration order of a set; then the others,
\* in the order they finished
AsCompleted(pre, finish, yielded) ==
    IF pre \ SeqRange(yielded) # {}
    THEN pre \ SeqRange(yielded)
    ELSE LET later == Without(finish, pre)
             k == Len(yielded) - Cardinality(pre) + 1
         IN IF k <= Len(later) THEN {later[k]} ELSE {}

CheckInit ==
    /\ cb_addresses \in CheckLists
    /\ cb_workers \in 0..MaxWorkers
    /\ cb_submitted = 0
    /\ cb_task = [i \in 1..Len(cb_addresses) |-> "new"]
    /\ cb_finish = <<>>
    /\ cb_pre = {}
    /\ cb_yield = <<>>
    /\ cb_results = <<>>
    /\ cb_file = [written |-> FALSE, rows |-> <<>>]
    /\ cb_pc = IF cb_workers = 1 THEN "sequential" ELSE "submit"

CheckIdle ==
    /\ cb_addresses = <<>>
    /\ cb_workers = 1
    /\ cb_submitted = 0
    /\ cb_task = <<>>
    /\ cb_finish = <<>>
    /\ cb_pre = {}
    /\ cb_yield = <<>>
    /\ cb_results = <<>>
    /\ cb_file = [written |-> FALSE, rows |-> <<>>]
    /\ cb_pc = "idle"

TaskIndices == 1..Len(cb_addresses)

\* lines 101-111: one iteration of the sequential loop
SequentialFetch ==
    /\ cb_pc = "sequential"
    /\ Len(cb_results) < Len(cb_addresses)
    /\ \E outcome \in {"ok", "err"} :
        LET idx == Len(cb_results) + 1 IN
        /\ cb_task' = [cb_task EXCEPT ![idx] = outcome]
        /\ cb_finish' = Append(cb_finish, idx)
        /\ cb_yield' = Append(cb_yield, idx)
        /\ cb_results' = CollectRow(cb_results, cb_addresses[idx], outcome)
    /\ UNCHANGED <<cb_addresses, cb_workers, cb_submitted, cb_pre, cb_file, cb_pc>>

\* line 116: ThreadPoolExecutor raises ValueError for max_workers <= 0
ExecutorRejects ==
    /\ cb_pc = "submit"
    /\ cb_workers <= 0
    /\ cb_pc' = "crashed"
    /\ UNCHANGED <<cb_addresses, cb_workers, cb_submitted, cb_task, cb_finish,
                   cb_pre, cb_yield, cb_results, cb_file>>

\* line 117: the dict comprehension submits the next address
Submit ==
    /\ cb_pc = "submit"
    /\ cb_workers > 1
    /\ cb_submitted < Len(cb_addresses)
    /\ cb_submitted' = cb_submitted + 1
    /\ cb_task' = [cb_task EXCEPT ![cb_submitted + 1] = "queued"]
    /\ UNCHANGED <<cb_addresses, cb_workers, cb_finish, cb_pre, cb_yield,
                   cb_results, cb_file, cb_pc>>

\* a pool thread takes the oldest queued fetch; the pool has cb_workers threads
WorkerStart ==
    /\ Cardinality({i \in TaskIndices : cb_task[i] = "running"}) < cb_workers
    /\ \E i \in TaskIndices :
        /\ cb_task[i] = "queued"
        /\ \A j \in 1..(i - 1) : cb_task[j] # "queued"
        /\ cb_task' = [cb_task EXCEPT ![i] = "running"]
    /\ UNCHANGED <<cb_addresses, cb_workers, cb_submitted, cb_finish, cb_pre,
                   cb_yield, cb_results, cb_file, cb_pc>>

\* a pool thread's fetch_balance returns or raises
WorkerFinish ==
    /\ \E i \in TaskIndices, outcome \in {"ok", "err"} :
        /\ cb_task[i] = "running"
        /\ cb_task' = [cb_task EXCEPT ![i] = outcome]
        /\ cb_finish' = Append(cb_finish, i)
    /\ UNCHANGED <<cb_addresses, cb_workers, cb_submitted, cb_pre, cb_yield,
                   cb_results, cb_file, cb_pc>>

\* line 118: the for statement calls as_completed, which notes the futures
\* already finished
StartCollect ==
    /\ cb_pc = "submit"
    /\ cb_workers > 1
    /\ cb_submitted = Len(cb_addresses)
    /\ cb_pre' = {i \in TaskIndices : cb_task[i] \in {"ok", "err"}}
    /\ cb_pc' = "collect"
    /\ UNCHANGED <<cb_addresses, cb_workers, cb_submitted, cb_task, cb_finish,
                   cb_yield, cb_results, cb_file>>

\* lines 118-129: one iteration of the loop over as_completed
HandleCompleted ==
    /\ cb_pc = "collect"
    /\ \E i \in AsCompleted(cb_pre, cb_finish, cb_yield) :
        /\ cb_yield' = Append(cb_yield, i)
        /\ cb_results' = CollectRow(cb_results, cb_addresses[i], cb_task[i])
    /\ UNCHANGED <<cb_addresses, cb_workers, cb_submitted, cb_task, cb_finish,
                   cb_pre, cb_file, cb_pc>>

\* lines 131-135: after the loop and the with blocks, the file is written
WriteFile ==
    /\ cb_pc \in {"sequential", "collect"}
    /\ Len(cb_yield) = Len(cb_addresses)
    /\ cb_file' = [written |-> TRUE, rows |-> cb_results]
    /\ cb_pc' = "done"
    /\ UNCHANGED <<cb_addresses, cb_workers, cb_submitted, cb_task, cb_finish,
                   cb_pre, cb_yield, cb_results>>

----------------------------------------------------------------------------
(* extract_addresses, of the three balance checking scripts *)

\* most lines of a CSV file given to extract_addresses
MaxCsvLines == 3

AsciiUpper ==
    <<"A", "B", "C", "D", "E", "F", "G", "H", "I", "J", "K", "L",
      "M", "N", "O", "P", "Q", "R", "S", "T", "U", "V", "W", "X",
      "Y", "Z">>

AsciiLower ==
    <<"a", "b", "c", "d", "e", "f", "g", "h", "i", "j", "k", "l",
      "m", "n", "o", "p", "q", "r", "s", "t", "u", "v", "w", "x",
      "y", "z">>

\* the lower case of every ASCII capital
LowerOfUpper ==
    [c \in {AsciiUpper[i] : i \in 1..26} |->
        AsciiLower[CHOOSE i \in 1..26 : AsciiUpper[i] = c]]

\* c.lower() for an ASCII character
LowerChar(c) == IF c \in DOMAIN LowerOfUpper THEN LowerOfUpper[c] ELSE c

\* s.lower()
str_lower(s) == [i \in 1..Len(s) |-> LowerChar(s[i])]

\* the string "hex_private_key"
HexPrivateKeyWord ==
    <<"h", "e", "x", "_", "p", "r", "i", "v", "a", "t", "e", "_",
      "k", "e", "y">>

\* the string "bitcoin_address"
BitcoinAddressWord ==
    <<"b", "i", "t", "c", "o", "i", "n", "_", "a", "d", "d", "r",
      "e", "s", "s">>

\* the lines a generated file is made of, without their line ends: three
\* header lines (lower case, upper case, two columns), rows of three, one,
\* two, no and four columns, and rows whose address is blank
CsvLines ==
    << <<"h", "e", "x", "_", "p", "r", "i", "v", "a", "t", "e", "_",
         "k", "e", "y", ",", "w", "i", "f", "_", "p", "r", "i", "v",
         "a", "t", "e", "_", "k", "e", "y", ",", "b", "i", "t", "c",
         "o", "i", "n", "_", "a", "d", "d", "r", "e", "s", "s">>,
       <<"H", "E", "X", "_", "P", "R", "I", "V", "A", "T", "E", "_",
         "K", "E", "Y", ",", "W", "I", "F", "_", "P", "R", "I", "V",
         "A", "T", "E", "_", "K", "E", "Y", ",", "B", "I", "T", "C",
         "O", "I", "N", "_", "A", "D", "D", "R", "E", "S", "S">>,
       <<"h", "e", "x", "_", "p", "r", "i", "v", "a", "t", "e", "_",
         "k", "e", "y", ",", "b", "i", "t", "c", "o", "i", "n", "_",
         "a", "d", "d", "r", "e", "s", "s">>,
       <<"k", ",", "w", ",", "a", "1">>,
       <<"k", ",", "w", ",", " ", "a", "1", " ">>,
       <<"a", "2">>,
       <<"k", ",", "a", "1">>,
       <<>>,
       <<"k", ",", "w", ",", "a", "2", ",", "x">>,
       <<"k", ",", "w", ",">>,
       <<" ">> >>

\* the files of at most n lines, as indices of CsvLines
RECURSIVE CsvFilesOf(_)
CsvFilesOf(n) ==
    IF n = 0 THEN {<<>>}
    ELSE LET shorter == CsvFilesOf(n - 1)
         IN shorter \cup {Append(f, k) : f \in shorter, k \in 1..Len(CsvLines)}

\* the text of the file from line n on: every line ends with a line feed
RECURSIVE TextFrom(_, _)
TextFrom(file, n) ==
    IF n > Len(file) THEN <<>>
    ELSE CsvLines[file[n]] \o <<"\n">> \o TextFrom(file, n + 1)

\* lines 27 and 29: f.read(4096), and the test on its lower case
has_header(file) ==
    LET text == TextFrom(file, 1)
        sample == SubSeq(text, 1, Min2(4096, Len(text)))
    IN startswith(str_lower(sample), HexPrivateKeyWord)

\* the cells of one line for csv.reader: split at the commas (the generated
\* lines hold no quote); an empty line is the empty row
RECURSIVE SplitFrom(_, _, _)
SplitFrom(line, n, cell) ==
    IF n > Len(line) THEN <<cell>>
    ELSE IF line[n] = "," THEN <<cell>> \o SplitFrom(line, n + 1, <<>>)
    ELSE SplitFrom(line, n + 1, Append(cell, line[n]))

CsvRow(line) == IF line = <<>> THEN <<>> ELSE SplitFrom(line, 1, <<>>)

\* the rows csv.reader yields for the file
CsvRows(file) == [n \in 1..Len(file) |-> CsvRow(CsvLines[file[n]])]

\* csv.DictReader: row.get(key) for a row read under `fieldnames`: the cell
\* of the last field of that name the row reaches; None is the empty string
\* here, as `or ""` makes it
DictGet(fieldnames, row, key) ==
    LET hits == {i \in 1..Min2(Len(fieldnames), Len(row)) : fieldnames[i] = key}
    IN IF hits = {} THEN <<>>
       ELSE row[CHOOSE i \in hits : \A j \in hits : j <= i]

\* line 33: the address a DictReader row gives
HeaderAddr(fieldnames, row) ==
    strip(DictGet(fieldnames, row, BitcoinAddressWord))

\* lines 41-45 with a fault: a row of two columns gives its second one
HeaderlessAddrFromTwo(row) ==
    IF Len(row) >= 3 THEN strip(row[3])
    ELSE IF Len(row) = 2 THEN strip(row[2])
    ELSE IF Len(row) = 1 THEN strip(row[1])
    ELSE <<>>

\* lines 41-45: the address a csv.reader row gives
HeaderlessAddr(row) ==
    IF Len(row) >= 3 THEN strip(row[3])
    ELSE IF Len(row) = 1 THEN strip(row[1])
    ELSE <<>>

\* lines 34-35 and 46-47: addresses.setdefault(addr, None) for a non-empty addr
AddAddress(addresses, addr) ==
    IF addr = <<>> \/ addr \in SeqRange(addresses) THEN addresses
    ELSE Append(addresses, addr)

\* the loop over the rows from row n on; DictReader skips the empty rows,
\* and the headerless loop skips them at line 39
RECURSIVE CollectFrom(_, _, _, _)
CollectFrom(rows, n, fieldnames, addresses) ==
    IF n > Len(rows) THEN addresses
    ELSE IF rows[n] = <<>> THEN CollectFrom(rows, n + 1, fieldnames, addresses)
    ELSE CollectFrom(rows, n + 1, fieldnames,
                     AddAddress(addresses,
                                IF fieldnames = <<>>
                                THEN HeaderlessAddr(rows[n])
                                ELSE HeaderAddr(fieldnames, rows[n])))

\* check_balance_multi_api.py lines 23-48; with a header the first row is
\* the fieldnames of DictReader, and fieldnames = <<>> stands for csv.reader
extract_addresses_multi_api(file) ==
    LET rows == CsvRows(file)
    IN IF has_header(file) THEN CollectFrom(rows, 2, rows[1], <<>>)
       ELSE CollectFrom(rows, 1, <<>>, <<>>)

\* check_balance_blockchain_com.py lines 21-46
extract_addresses_blockchain_com(file) ==
    LET rows == CsvRows(file)
    IN IF has_header(file) THEN CollectFrom(rows, 2, rows[1], <<>>)
       ELSE CollectFrom(rows, 1, <<>>, <<>>)

\* derive_and_check_balance.py lines 26-50
extract_addresses_derive(file) ==
    LET rows == CsvRows(file)
    IN IF has_header(file) THEN CollectFrom(rows, 2, rows[1], <<>>)
       ELSE CollectFrom(rows, 1, <<>>, <<>>)

NotExtracted ==
    [done |-> FALSE, multi_api |-> <<>>, blockchain_com |-> <<>>,
     derive |-> <<>>]

ExtractInit ==
    /\ x_file \in CsvFilesOf(MaxCsvLines)
    /\ x_out = NotExtracted

ExtractIdle ==
    /\ x_file = <<>>
    /\ x_out = NotExtracted

\* one call of each of the three copies on the same file
Extract ==
    /\ ~x_out.done
    /\ x_out' = [done |-> TRUE,
                 multi_api |-> extract_addresses_multi_api(x_file),
                 blockchain_com |-> extract_addresses_blockchain_com(x_file),
                 derive |-> extract_addresses_derive(x_file)]
    /\ UNCHANGED x_file

----------------------------------------------------------------------------
(* Specifications *)

\* no call of the core functions, and none of the balance checking scripts
CoreIdle == DetectIdle /\ DeriveIdle /\ MainIdle /\ FallbackIdle

CheckerIdle ==
    /\ FetchIdle /\ BatchIdle /\ FetcherIdle /\ LimitIdle
    /\ MultiIdle /\ CheckIdle /\ ExtractIdle

\* detect_secret_type
DetectNext == Detect /\ UNCHANGED <<deriveVars, mainVars, fallbackVars, checkerVars>>

InitDetect == DetectInit /\ DeriveIdle /\ MainIdle /\ FallbackIdle /\ CheckerIdle

SpecDetect == InitDetect /\ [][DetectNext]_vars

\* btc_address_from_private_key
DeriveNext == Derive /\ UNCHANGED <<detectVars, mainVars, fallbackVars, checkerVars>>

InitDerive == DeriveInit /\ DetectIdle /\ MainIdle /\ FallbackIdle /\ CheckerIdle

SpecDerive == InitDerive /\ [][DeriveNext]_vars

\* btc_batch_verifier.main
MainNext ==
    \/ Open /\ UNCHANGED <<detectVars, deriveVars, fallbackVars, checkerVars>>
    \/ ReadLine /\ UNCHANGED <<detectVars, deriveVars, fallbackVars, checkerVars>>
    \/ EndOfFile /\ UNCHANGED <<detectVars, deriveVars, fallbackVars, checkerVars>>

Init == MainInit /\ DetectIdle /\ DeriveIdle /\ FallbackIdle /\ CheckerIdle

Next == MainNext

Spec == Init /\ [][Next]_vars

\* fetch_with_fallback
FallbackNext ==
    \/ TryApi /\ UNCHANGED <<detectVars, deriveVars, mainVars, checkerVars>>
    \/ SkipUnknown /\ UNCHANGED <<detectVars, deriveVars, mainVars, checkerVars>>
    \/ ReturnAllFailed /\ UNCHANGED <<detectVars, deriveVars, mainVars, checkerVars>>

InitFallback == FallbackInit /\ DetectIdle /\ DeriveIdle /\ MainIdle /\ CheckerIdle

SpecFallback == InitFallback /\ [][FallbackNext]_vars

\* derive_and_check_balance.fetch_balance
FetchNext ==
    \/ FetchAttempt
        /\ UNCHANGED <<coreVars, batchVars, fetcherVars, limitVars, multiVars,
                       checkVars, extractVars>>
    \/ FetchRaise
        /\ UNCHANGED <<coreVars, batchVars, fetcherVars, limitVars, multiVars,
                       checkVars, extractVars>>

InitFetch ==
    /\ FetchInit /\ CoreIdle
    /\ BatchIdle /\ FetcherIdle /\ LimitIdle /\ MultiIdle /\ CheckIdle
    /\ ExtractIdle

SpecFetch == InitFetch /\ [][FetchNext]_vars

\* fetch_balance_for_btc_address
BatchNext ==
    BatchFetch
    /\ UNCHANGED <<coreVars, fetchVars, fetcherVars, limitVars, multiVars,
                   checkVars, extractVars>>

InitBatch ==
    /\ BatchInit /\ CoreIdle
    /\ FetchIdle /\ FetcherIdle /\ LimitIdle /\ MultiIdle /\ CheckIdle
    /\ ExtractIdle

SpecBatch == InitBatch /\ [][BatchNext]_vars

\* the single-shot fetchers
FetcherNext ==
    CallFetcher
    /\ UNCHANGED <<coreVars, fetchVars, batchVars, limitVars, multiVars,
                   checkVars, extractVars>>

InitFetcher ==
    /\ FetcherInit /\ CoreIdle
    /\ FetchIdle /\ BatchIdle /\ LimitIdle /\ MultiIdle /\ CheckIdle
    /\ ExtractIdle

SpecFetcher == InitFetcher /\ [][FetcherNext]_vars

\* the limit of check_balances
LimitNext ==
    ApplyLimit
    /\ UNCHANGED <<coreVars, fetchVars, batchVars, fetcherVars, multiVars,
                   checkVars, extractVars>>

InitLimit ==
    /\ LimitInit /\ CoreIdle
    /\ FetchIdle /\ BatchIdle /\ FetcherIdle /\ MultiIdle /\ CheckIdle
    /\ ExtractIdle

SpecLimit == InitLimit /\ [][LimitNext]_vars

\* check_balance_multi_api.check_balances
MultiNext ==
    \/ CheckOne
        /\ UNCHANGED <<coreVars, fetchVars, batchVars, fetcherVars, limitVars,
                       checkVars, extractVars>>
    \/ FinalSave
        /\ UNCHANGED <<coreVars, fetchVars, batchVars, fetcherVars, limitVars,
                       checkVars, extractVars>>

InitMulti ==
    /\ MultiInit /\ CoreIdle
    /\ FetchIdle /\ BatchIdle /\ FetcherIdle /\ LimitIdle /\ CheckIdle
    /\ ExtractIdle

SpecMulti == InitMulti /\ [][MultiNext]_vars

\* derive_and_check_balance.check_balances
CheckNext ==
    \/ SequentialFetch
        /\ UNCHANGED <<coreVars, fetchVars, batchVars, fetcherVars, limitVars,
                       multiVars, extractVars>>
    \/ ExecutorRejects
        /\ UNCHANGED <<coreVars, fetchVars, batchVars, fetcherVars, limitVars,
                       multiVars, extractVars>>
    \/ Submit
        /\ UNCHANGED <<coreVars, fetchVars, batchVars, fetcherVars, limitVars,
                       multiVars, extractVars>>
    \/ WorkerStart
        /\ UNCHANGED <<coreVars, fetchVars, batchVars, fetcherVars, limitVars,
                       multiVars, extractVars>>
    \/ WorkerFinish
        /\ UNCHANGED <<coreVars, fetchVars, batchVars, fetcherVars, limitVars,
                       multiVars, extractVars>>
    \/ StartCollect
        /\ UNCHANGED <<coreVars, fetchVars, batchVars, fetcherVars, limitVars,
                       multiVars, extractVars>>
    \/ HandleCompleted
        /\ UNCHANGED <<coreVars, fetchVars, batchVars, fetcherVars, limitVars,
                       multiVars, extractVars>>
    \/ WriteFile
        /\ UNCHANGED <<coreVars, fetchVars, batchVars, fetcherVars, limitVars,
                       multiVars, extractVars>>

InitCheck ==
    /\ CheckInit /\ CoreIdle
    /\ FetchIdle /\ BatchIdle /\ FetcherIdle /\ LimitIdle /\ MultiIdle
    /\ ExtractIdle

SpecCheck == InitCheck /\ [][CheckNext]_vars

\* extract_addresses
ExtractNext ==
    Extract
    /\ UNCHANGED <<coreVars, fetchVars, batchVars, fetcherVars, limitVars,
                   multiVars, checkVars>>

InitExtract ==
    /\ ExtractInit /\ CoreIdle
    /\ FetchIdle /\ BatchIdle /\ FetcherIdle /\ LimitIdle /\ MultiIdle
    /\ CheckIdle

SpecExtract == InitExtract /\ [][ExtractNext]_vars

----------------------------------------------------------------------------
(* Claims about detect_secret_type *)

\* the shape of a WIF string: space-free base58, a leading 5, K or L, and 51
\* or 52 characters
WifShaped(s) ==
    /\ Len(s) \in {51, 52}
    /\ s[1] \in {"5", "K", "L"}
    /\ \A i \in 1..Len(s) : s[i] \in Base58Chars

\* exactly 64 hexadecimal digits
Hex64(s) == Len(s) = 64 /\ \A i \in 1..64 : s[i] \in HexDigits

\* C3: detect_secret_type returns "WIF" for every space-free base58 string
\* that starts with 5, K or L and is 51 or 52 characters long.
C3_WifShapeDetected ==
    (d_result # "none" /\ WifShaped(d_secret)) => d_result = "WIF"

\* C5: detect_secret_type returns "classic" for every string whose stripped
\* form is exactly 64 hexadecimal digits, whatever its first character.
C5_Hex64IsClassic ==
    (d_result # "none" /\ Hex64(strip(d_secret))) => d_result = "classic"

\* C5 witness: a padded 64-digit hex string with a leading 5 was classified
C5_Witness ==
    /\ d_result = "classic"
    /\ Hex64(strip(d_secret))
    /\ Head(strip(d_secret)) = "5"
    /\ d_secret # strip(d_secret)
    /\ contains(d_secret, "F")

\* C6: detect_secret_type returns "mnemonic" for every string whose stripped
\* form is non-empty and contains a space, even when a later rule matches too.
C6_SpaceIsMnemonic ==
    (d_result # "none" /\ strip(d_secret) # <<>> /\ contains(strip(d_secret), " "))
        => d_result = "mnemonic"

\* C6 witness: a secret with an extended-key prefix and an inner space was
\* classified as a mnemonic
C6_Witness ==
    /\ d_result = "mnemonic"
    /\ IsExtendedRule(strip(d_secret))
    /\ contains(strip(d_secret), " ")

\* the detector as C7 words it: the first matching rule, with the WIF rule
\* matching the WIF shape
FirstMatchingRule(s) ==
    IF s = <<>> THEN "unknown"
    ELSE IF contains(s, " ") THEN "mnemonic"
    ELSE IF \E p \in ExtendedPrefixes : startswith(s, p) THEN "extended"
    ELSE IF WifShaped(s) THEN "WIF"
    ELSE IF Hex64(s) THEN "classic"
    ELSE IF s[1] = "S" THEN "mini"
    ELSE "unknown"

\* C7: detect_secret_type is total, returns one of the six type names, the
\* value is that of the first matching rule (empty -> unknown, space ->
\* mnemonic, prefix -> extended, WIF shape -> WIF, 64 hex -> classic,
\* leading S -> mini, else unknown), and depends only on the stripped string.
C7_FirstMatchingRuleWins ==
    d_result # "none" =>
        /\ d_result \in {"WIF", "classic", "extended", "mnemonic", "mini", "unknown"}
        /\ d_result = FirstMatchingRule(strip(d_secret))
        /\ d_result = detect_secret_type(strip(d_secret))

----------------------------------------------------------------------------
(* Claims about btc_address_from_private_key *)

DeriveDone == a_out.exc # "pending"

Underivable(secret, ext) ==
    /\ ~from_private_key(secret).ok
    /\ ~from_wif(secret).ok
    /\ ext # "ok"

\* C8: btc_address_from_private_key returns "" and does not raise for every
\* secret from which no address can be derived, for every accepted
\* secret_type (auto, WIF, classic, extended, mnemonic, mini).
C8_UnderivableReturnsEmpty ==
    (DeriveDone /\ a_type \in {"auto"} \cup SupportedTypes
                /\ Underivable(a_secret, a_out.ext))
        => (a_out.exc = "none" /\ a_out.ret = <<>>)

\* C9: for every valid private key k, the hex form with secret_type "classic"
\* and the WIF form with secret_type "WIF" give the same non-empty P2PKH
\* address, the one the library derives for k.
C9_HexAndWifAgree ==
    DeriveDone =>
        /\ (a_type = "classic" /\ from_private_key(a_secret).ok) =>
              LET k == from_private_key(a_secret).key IN
              /\ a_out.exc = "none"
              /\ a_out.ret # <<>>
              /\ a_out.ret = p2pkh_address(k)
              /\ btc_address_from_private_key(wif(k), "WIF", "ok").ret = a_out.ret
        /\ (a_type = "WIF") =>
              \A h \in HexKeys :
                 (from_private_key(h).ok /\ a_secret = wif(from_private_key(h).key)) =>
                    /\ a_out.exc = "none"
                    /\ a_out.ret # <<>>
                    /\ a_out.ret = p2pkh_address(from_private_key(h).key)
                    /\ btc_address_from_private_key(h, "classic", "ok").ret = a_out.ret

\* C9 witness: an address was derived from a WIF string
C9_Witness ==
    /\ DeriveDone
    /\ a_type = "WIF"
    /\ a_out.lib = "from_wif"
    /\ a_out.ret # <<>>
    /\ \E h \in HexKeys : a_out.ret = btc_address_from_private_key(h, "classic", "ok").ret

----------------------------------------------------------------------------
(* Claims about btc_batch_verifier.main *)

\* a line that is neither blank nor a '#' line
IsSecretLine(line) == strip(line) # <<>> /\ Head(strip(line)) # "#"

\* the numbers of the secret lines among the first n lines of the file, ascending
RECURSIVE SecretLinesUpTo(_)
SecretLinesUpTo(n) ==
    IF n = 0 THEN <<>>
    ELSE IF IsSecretLine(LineText(m_file, n))
    THEN Append(SecretLinesUpTo(n - 1), n)
    ELSE SecretLinesUpTo(n - 1)

RECURSIVE ApiCallsIn(_)
ApiCallsIn(trace) ==
    IF trace = <<>> THEN 0 ELSE trace[1].api_calls + ApiCallsIn(Tail(trace))

C10_WitnessFailures ==
    /\ m_pc = "done"
    /\ m_end = "eof"
    /\ Len(m_trace) >= 2
    /\ m_trace[1].event = "invalid_type"
    /\ m_trace[2].event = "no_address"

----------------------------------------------------------------------------
(* Claims about fetch_with_fallback *)

IsKnownApi(name) == name \in KnownApis

\* the known names among the first n entries of api_order, in order
KnownUpTo(n) == SelectSeq(SubSeq(fb_order, 1, n), IsKnownApi)

LastCall == fb_calls[Len(fb_calls)]

\* C1: the APIs are called strictly in the order given, once per occurrence,
\* with no retry; the call stops at the first API whose balance is >= 0 and
\* returns that API's (balance, total_received, name); an API is called only
\* if every API before it returned a balance < 0.
C1_InOrderUntilFirstSuccess ==
    /\ [j \in 1..Len(fb_calls) |-> fb_calls[j].api] = KnownUpTo(fb_i)
    /\ \A j \in 1..(Len(fb_calls) - 1) : fb_calls[j].balance < 0
    /\ (fb_calls # <<>> /\ LastCall.balance >= 0) =>
          /\ fb_pc = "done"
          /\ fb_ret = [balance |-> LastCall.balance, received |-> LastCall.received,
                       api_used |-> LastCall.api]
    /\ (fb_pc = "done" /\ fb_ret.api_used # "all_failed") =>
          (fb_calls # <<>> /\ LastCall.balance >= 0)

\* C1 witness: the second API called succeeded after the first returned a
\* negative balance, and a later entry of api_order was never tried
C1_Witness ==
    /\ fb_pc = "done"
    /\ Len(fb_calls) = 2
    /\ fb_calls[1].balance < 0
    /\ fb_ret.api_used = fb_calls[2].api
    /\ fb_ret.balance = 0
    /\ fb_i < Len(fb_order)

\* C2: the result is exactly (-1, -1, "all_failed") when every API of
\* api_order fails (also for an empty list or unknown names only), and
\* otherwise a balance >= 0 with the name of an API of api_order; so
\* balance < 0 iff api_used is "all_failed"; the function never raises.
C2_SentinelIffAllFailed ==
    /\ fb_pc = "done" =>
          /\ (\A j \in 1..Len(fb_calls) : fb_calls[j].balance < 0) =>
                (/\ fb_ret = [balance |-> -1, received |-> -1, api_used |-> "all_failed"]
                 /\ fb_i = Len(fb_order))
          /\ (\E j \in 1..Len(fb_calls) : fb_calls[j].balance >= 0) =>
                (/\ fb_ret.balance >= 0
                 /\ \E n \in 1..Len(fb_order) : fb_order[n] = fb_ret.api_used)
          /\ (fb_ret.balance < 0) <=> (fb_ret.api_used = "all_failed")
    /\ fb_pc = "loop" => (ENABLED TryApi \/ ENABLED SkipUnknown \/ ENABLED ReturnAllFailed)

\* C2 witness: every API failed, one of them with a negative balance that is
\* not the sentinel, and the sentinel triple was returned
C2_Witness ==
    /\ fb_pc = "done"
    /\ fb_ret.api_used = "all_failed"
    /\ Len(fb_calls) >= 2
    /\ \E j \in 1..Len(fb_calls) : fb_calls[j].balance < -1
    /\ Len(fb_calls) < Len(fb_order)

----------------------------------------------------------------------------
(* Claims about derive_and_check_balance.fetch_balance *)

\* the number of iterations range(retries) has
AttemptBudget == IF fr_retries > 0 THEN fr_retries ELSE 0

NoGoodResponse == \A i \in 1..Len(fr_log) : fr_log[i].kind # "ok"

\* C11: fetch_balance makes at most `retries` HTTP requests: it returns
\* (confirmed, mempool_delta, total) of the first good response and makes no
\* request after it, every 429 and every exception uses up one attempt, and
\* after `retries` attempts without a good response it raises RuntimeError
\* and returns nothing.
C11_AtMostRetriesRequests ==
    fr_pc # "idle" =>
        /\ Len(fr_log) <= AttemptBudget
        /\ \A i \in 1..Len(fr_log) :
            fr_log[i].kind = "ok" => i = Len(fr_log) /\ fr_pc = "done"
        /\ fr_pc = "loop" => fr_ret.exc = "pending" /\ NoGoodResponse
        /\ fr_pc = "done" =>
            \/ /\ fr_ret.exc = "none"
               /\ Len(fr_log) >= 1
               /\ fr_log[Len(fr_log)].kind = "ok"
               /\ fr_ret.value = fr_log[Len(fr_log)].value
            \/ /\ fr_ret.exc = "RuntimeError"
               /\ fr_ret.value = NoBalance
               /\ Len(fr_log) = AttemptBudget
               /\ NoGoodResponse

\* a call that raised after three or more attempts, some ended by a 429 and
\* some by an exception
C11_Witness ==
    /\ fr_pc = "done"
    /\ fr_ret.exc = "RuntimeError"
    /\ Len(fr_log) >= 3
    /\ \E i, j \in 1..Len(fr_log) :
        fr_log[i].kind = "429" /\ fr_log[j].kind = "exception"

RECURSIVE TotalSleep(_)
TotalSleep(log) ==
    IF log = <<>> THEN 0 ELSE Head(log).sleep + TotalSleep(Tail(log))

----------------------------------------------------------------------------
(* Claims about fetch_balance_for_btc_address *)

\* the number of iterations range(1, retries + 1) has
BatchBudget == IF bf_retries > 0 THEN bf_retries ELSE 0

\* the sleeps between two attempts: all of them but the sleep(rate_delay)
\* that follows a success
BackoffSleeps ==
    LET r == bf_out.result
    IN IF r.found THEN SubSeq(r.sleeps, 1, Len(r.sleeps) - 1) ELSE r.sleeps

\* C12: fetch_balance_for_btc_address makes at most `retries` attempts, and
\* no backoff sleep between two attempts exceeds a fixed cap, whatever
\* `retries` is; the cap is 120 seconds, the longest sleep of the
\* repository's other retry loop.
C12_BackoffCapped ==
    bf_out.done =>
        /\ bf_out.result.attempts <= BatchBudget
        /\ \A k \in 1..Len(BackoffSleeps) : BackoffSleeps[k] <= SleepCap429

\* the attempts at which get_address returns
GoodAttempts == {a \in 1..bf_retries : bf_outcomes[a].ok}

\* C13: fetch_balance_for_btc_address never raises; it returns
\* (balance, tx_count) of the first attempt that succeeds and makes no
\* attempt after it, and it returns None exactly when all `retries` attempts
\* failed; for retries <= 0 it makes no attempt and returns None.
C13_FirstSuccessOrNone ==
    bf_out.done =>
        LET r == bf_out.result IN
        /\ r.found <=> GoodAttempts # {}
        /\ r.found =>
            /\ r.attempts \in GoodAttempts
            /\ \A a \in GoodAttempts : r.attempts <= a
            /\ r.balance = bf_outcomes[r.attempts].balance
            /\ r.tx_count = bf_outcomes[r.attempts].tx_count
        /\ ~r.found => r.attempts = BatchBudget
        /\ bf_retries <= 0 => ~r.found /\ r.attempts = 0

\* a call that returned the values of its third or later attempt, with a
\* later attempt that would have given other values
C13_Witness ==
    /\ bf_out.done
    /\ bf_out.result.found
    /\ bf_out.result.attempts >= 3
    /\ \E a \in GoodAttempts :
        /\ a > bf_out.result.attempts
        /\ bf_outcomes[a].balance # bf_out.result.balance

----------------------------------------------------------------------------
(* Claims about derive_and_check_balance.check_balances *)

\* the row check_balances owes the address of index i once its fetch ended
RowOwed(i) ==
    IF cb_task[i] = "ok"
    THEN [address |-> cb_addresses[i],
          confirmed |-> FetchedBalance(cb_addresses[i])[1],
          mempool |-> FetchedBalance(cb_addresses[i])[2],
          total |-> FetchedBalance(cb_addresses[i])[3],
          total_btc |-> FetchedBalance(cb_addresses[i])[3]]
    ELSE [address |-> cb_addresses[i], confirmed |-> -1, mempool |-> -1,
          total |-> -1, total_btc |-> 0 - SatsPerBtc]

\* C14: with workers > 1, whatever the interleaving and whichever fetches
\* fail, results gets one row per handled future and only in the loop of the
\* coordinating thread, a failed fetch gives the row (addr, -1, -1, -1, -1),
\* the file is written only after every submitted fetch has ended, and it
\* then holds exactly one row for every address of addr_list.
C14_OneRowPerAddress ==
    cb_workers > 1 /\ cb_pc # "idle" =>
        /\ Len(cb_results) = Len(cb_yield)
        /\ \A k \in 1..Len(cb_yield) :
            /\ cb_task[cb_yield[k]] \in {"ok", "err"}
            /\ cb_results[k] = RowOwed(cb_yield[k])
        /\ ~cb_file.written => cb_file.rows = <<>>
        /\ cb_file.written =>
            /\ \A i \in TaskIndices : cb_task[i] \in {"ok", "err"}
            /\ cb_file.rows = cb_results
            /\ \A i \in TaskIndices :
                Cardinality({k \in 1..Len(cb_file.rows) :
                    cb_file.rows[k].address = cb_addresses[i]}) = 1
            /\ Len(cb_file.rows) = Len(cb_addresses)

\* a parallel run over three or more addresses, written out, where a fetch
\* failed, another succeeded, and the first address was not handled first
C14_Witness ==
    /\ cb_workers > 1
    /\ cb_file.written
    /\ Len(cb_addresses) >= 3
    /\ \E i, j \in TaskIndices : cb_task[i] = "ok" /\ cb_task[j] = "err"
    /\ cb_yield[1] # 1

\* the index in addr_list of the address of each row of the file
OutputOrder ==
    [k \in 1..Len(cb_file.rows) |->
        CHOOSE i \in TaskIndices : cb_addresses[i] = cb_file.rows[k].address]

InputOrder == [k \in 1..Len(cb_addresses) |-> k]

\* the position of x in the sequence s
PositionIn(s, x) == CHOOSE k \in 1..Len(s) : s[k] = x

\* C15: the rows of the file are in input order when workers == 1, and in
\* the order in which the fetches finished when workers > 1.
C15_CompletionOrder ==
    cb_file.written =>
        /\ cb_workers = 1 => OutputOrder = InputOrder
        /\ cb_workers > 1 => OutputOrder = cb_finish

\* C15, amended: the rows of the file are in input order when workers == 1.
\* When workers > 1 they are in the order as_completed yields the futures:
\* first the fetches that had finished when the loop started, in no
\* particular order, then the others in the order in which they finished;
\* this need not be the input order.
C15_YieldOrder ==
    cb_file.written =>
        /\ cb_workers = 1 => OutputOrder = InputOrder
        /\ cb_workers > 1 =>
            /\ Len(OutputOrder) = Len(cb_addresses)
            /\ {OutputOrder[k] : k \in 1..Cardinality(cb_pre)} = cb_pre
            /\ \A k, l \in (Cardinality(cb_pre) + 1)..Len(OutputOrder) :
                k < l => PositionIn(cb_finish, OutputOrder[k])
                            < PositionIn(cb_finish, OutputOrder[l])

\* a parallel run whose file is neither in input order nor in the order the
\* fetches finished
C15_Witness ==
    /\ cb_workers > 1
    /\ cb_file.written
    /\ OutputOrder # InputOrder
    /\ OutputOrder # cb_finish

----------------------------------------------------------------------------
(* Claims about the single-shot fetchers *)

\* the failures of one HTTP exchange: no connection, a timeout, an error
\* status (4xx, 5xx), or a body that cannot be parsed into the numbers read
FailedExchange(x) ==
    \/ x.net \in {"conn_error", "timeout"}
    \/ x.status >= 400
    \/ x.body # "json"

\* the sentinel of the fetcher: -1 for get_btc_balance, (-1, -1) for the others
SentinelOf(fn) == IF fn = "get_btc_balance" THEN <<-1>> ELSE <<-1, -1>>

----------------------------------------------------------------------------
(* Claims about the limit of check_balances *)

\* the first n elements of s, or all of s when it has fewer
FirstN(s, n) == [k \in 1..(IF n < Len(s) THEN n ELSE Len(s)) |-> s[k]]

\* C17: given a limit N >= 0, check_balances checks at most N addresses,
\* the first N of the list, in check_balance_multi_api,
\* check_balance_blockchain_com and derive_and_check_balance.
C17_LimitIsFirstN ==
    lm_out.done /\ lm_limit.given /\ lm_limit.n >= 0 =>
        /\ Len(lm_out.multi_api) <= lm_limit.n
        /\ lm_out.multi_api = FirstN(lm_addresses, lm_limit.n)
        /\ lm_out.blockchain_com = FirstN(lm_addresses, lm_limit.n)
        /\ lm_out.derive = FirstN(lm_addresses, lm_limit.n)

----------------------------------------------------------------------------
(* Claims about check_balance_multi_api.check_balances *)

\* s is the start of t
IsPrefix(s, t) == Len(s) <= Len(t) /\ \A i \in 1..Len(s) : s[i] = t[i]

\* C18: the output file is rewritten in full after every 100th address and
\* once more after the last one; every version is the header and the rows
\* of the first k checked addresses in input order, k a multiple of 100 or
\* the total; every version extends the one before; and the final file has
\* exactly one row per checked address, none twice.
C18_SavedPrefixes ==
    mc_pc # "idle" =>
        LET saved == IF mc_pc = "done" THEN Len(MultiAddrList)
                     ELSE SavePeriod * (Len(mc_results) \div SavePeriod)
        IN
        /\ mc_writes = (Len(mc_results) \div SavePeriod)
                        + (IF mc_pc = "done" THEN 1 ELSE 0)
        /\ mc_file.written <=> mc_writes > 0
        /\ mc_file.written =>
            /\ mc_file.header = MultiHeader
            /\ Len(mc_file.rows) = saved
            /\ saved % SavePeriod = 0 \/ saved = Len(MultiAddrList)
            /\ \A i \in 1..saved :
                /\ mc_file.rows[i].address = MultiAddrList[i]
                /\ mc_file.rows[i] = mc_results[i]
        /\ mc_prev.written =>
            /\ mc_file.written
            /\ IsPrefix(mc_prev.rows, mc_file.rows)
        /\ mc_pc = "done" =>
            /\ Len(mc_file.rows) = Len(MultiAddrList)
            /\ \A i, j \in 1..Len(mc_file.rows) :
                i # j => mc_file.rows[i].address # mc_file.rows[j].address

\* a finished run that saved at two multiples of 100 and once at the end,
\* one address past the last multiple, with a failed address among the rows
C18_Witness ==
    /\ mc_pc = "done"
    /\ mc_writes >= 3
    /\ Len(mc_file.rows) % SavePeriod = 1
    /\ Len(mc_prev.rows) = Len(mc_file.rows) - 1
    /\ \E i \in 1..Len(mc_file.rows) : mc_file.rows[i].balance = -1

----------------------------------------------------------------------------
(* Claims about extract_addresses *)

\* the stripped address line n of the file contributes, <<>> for none:
\* without a header the third column of a row of three or more columns, the
\* only column of a row of one, and nothing for a row of two or none; with a
\* header the cell DictReader files under bitcoin_address
ContributedBy(file, n) ==
    LET row == CsvRow(CsvLines[file[n]])
    IN IF has_header(file)
       THEN IF n = 1 THEN <<>>
            ELSE HeaderAddr(CsvRow(CsvLines[file[1]]), row)
       ELSE IF Len(row) >= 3 THEN strip(row[3])
       ELSE IF Len(row) = 1 THEN strip(row[1])
       ELSE <<>>

\* the first line of the file that contributes the address a
FirstLineOf(file, a) ==
    CHOOSE n \in 1..Len(file) :
        /\ ContributedBy(file, n) = a
        /\ \A m \in 1..(n - 1) : ContributedBy(file, m) # a

\* C20: extract_addresses returns every distinct non-empty stripped address
\* exactly once, in the order of first occurrence in the file; without a
\* header a row gives its third column when it has three or more columns,
\* its only column when it has one, and nothing when it has two or none; and
\* the three copies of the function return the same list for the same file.
C20_DistinctInFirstOccurrenceOrder ==
    x_out.done =>
        LET r == x_out.multi_api IN
        /\ \A i, j \in 1..Len(r) : i # j => r[i] # r[j]
        /\ \A i \in 1..Len(r) : r[i] # <<>> /\ strip(r[i]) = r[i]
        /\ {r[i] : i \in 1..Len(r)} =
            {ContributedBy(x_file, n) : n \in 1..Len(x_file)} \ {<<>>}
        /\ \A i, j \in 1..Len(r) :
            i < j => FirstLineOf(x_file, r[i]) < FirstLineOf(x_file, r[j])
        /\ x_out.blockchain_com = r
        /\ x_out.derive = r

\* a file without a header where an address comes twice, once padded with
\* blanks, and two distinct addresses are returned
C20_Witness ==
    /\ x_out.done
    /\ ~has_header(x_file)
    /\ Len(x_out.multi_api) = 2
    /\ \E n, m \in 1..Len(x_file) :
        /\ n < m
        /\ CsvLines[x_file[n]] # CsvLines[x_file[m]]
        /\ ContributedBy(x_file, n) # <<>>
        /\ ContributedBy(x_file, n) = ContributedBy(x_file, m)

----------------------------------------------------------------------------
(* Claims about the header of extract_addresses *)

\* the columns of the header row named bitcoin_address, the name compared
\* without regard to case as the detection of the header compares
BitcoinColumns(file) ==
    LET header == CsvRow(CsvLines[file[1]])
    IN {i \in 1..Len(header) : str_lower(header[i]) = BitcoinAddressWord}

\* the stripped cells line n holds in the bitcoin_address column
ColumnValues(file, n) ==
    LET row == CsvRow(CsvLines[file[n]])
    IN {strip(row[i]) : i \in {c \in BitcoinColumns(file) : c <= Len(row)}}

\* C21: when extract_addresses detects a header (the file begins with
\* hex_private_key, in any case), it returns the values of the
\* bitcoin_address column of all data rows, and nothing for the header line
\* itself; when it detects none, the first line is a data row and its
\* address comes first.
C21_HeaderColumnReturned ==
    x_out.done /\ x_file # <<>> =>
        LET r == x_out.multi_api IN
        /\ has_header(x_file) =>
            {r[i] : i \in 1..Len(r)} =
                UNION {ColumnValues(x_file, n) : n \in 2..Len(x_file)}
                    \ {<<>>}
        /\ ~has_header(x_file) /\ ContributedBy(x_file, 1) # <<>> =>
            /\ Len(r) >= 1
            /\ r[1] = ContributedBy(x_file, 1)

====
